---- MODULE Spec2Model ----
(***************************************************************************)
(* WinformsProactorEventLoop (toga_winforms/libs/proactor.py): an asyncio  *)
(* proactor loop driven by ticks posted on the WinForms message loop.      *)
(*                                                                         *)
(* The UI thread is modelled by its call stack: one frame per executing    *)
(* run_once_recurring.  A frame whose callback runs a nested native loop   *)
(* pumps messages, so further tick bodies nest on top of it.  The timer    *)
(* continuation `tick` runs on a worker thread and only dispatches.        *)
(***************************************************************************)
EXTENDS Integers, Sequences, FiniteSets, TLC

\* ---- bounds of the model ------------------------------------------------
MaxDepth == 2      \* nested run_once_recurring frames on the UI thread
MaxReady == 1      \* length of a loop's _ready queue up to which tasks are scheduled
MaxRuns  == 2      \* successful run_forever calls in the process

\* ---- value sets ---------------------------------------------------------
Loops == {"L1", "L2"}                 \* WinformsProactorEventLoop instances
Apps == {"a1", "a2"}                  \* application objects passed to run_forever
None == "None"
NoRequest == <<>>                     \* self._inner_loop = None
Unset == <<"Unset">>                  \* self._inner_loop was never assigned
UIThread == "ui"                      \* threading.get_ident() of the GUI thread
UserHooks == {"h0"}                   \* asyncgen hooks present before any loop starts
Requests == {<<"cb1", <<1>>>>, <<"cb2", <<>>>>}   \* the tuples (callback, args)
Handles == {"_loop_self_reading", "task"}

VARIABLES
    _ready,          \* [Loops -> Seq(Handles)]      self._ready
    app,             \* [Loops -> Apps \cup {None}]  self.app
    _thread_id,      \* [Loops -> {None, UIThread}]  self._thread_id
    _old_agen_hooks, \* [Loops -> hooks or None]     self._old_agen_hooks
    _stopping,       \* [Loops -> BOOLEAN]           self._stopping
    _inner_loop,     \* [Loops -> Unset, NoRequest or a request]
    handlers,        \* Seq(Loops): subscriptions on Application.ApplicationExit, in order
    exit_queue,      \* Seq(Loops): handlers the ApplicationExit event has yet to invoke
    task,            \* [Loops -> Nat] Task.Delay continuations armed by enqueue_tick
    dispatched,      \* [Loops -> Nat] run_once_recurring actions inside Invoke
    running_loop,    \* events._get_running_loop()
    asyncgen_hooks,  \* sys.get_asyncgen_hooks()
    _is_exiting,     \* [Apps -> BOOLEAN]            app._is_exiting
    stack,           \* frames of run_once_recurring on the UI thread
    pre_hooks        \* history: hooks in force when run_forever last installed its own

vars == <<_ready, app, _thread_id, _old_agen_hooks, _stopping, _inner_loop,
          handlers, exit_queue, task, dispatched, running_loop, asyncgen_hooks, _is_exiting,
          stack, pre_hooks>>

loopVars == <<_ready, app, _thread_id, _old_agen_hooks, _stopping, _inner_loop>>
hostVars == <<handlers, exit_queue, task, dispatched>>
procVars == <<running_loop, asyncgen_hooks, pre_hooks>>

\* ---- the UI thread ------------------------------------------------------
Depth == Len(stack)
Top == stack[Depth]
SetTop(f) == [stack EXCEPT ![Depth] = f]
Pop == SubSeq(stack, 1, Depth - 1)

\* The UI thread is not inside the dispatch of the ApplicationExit event.
NotExiting == exit_queue = <<>>

\* The native message loop is dispatching: at top level, or inside the nested
\* loop of a blocking native call made by an inner-loop callback.
HostPumping == NotExiting /\ (IF Depth = 0 THEN TRUE ELSE Top.pc = "callback")

\* Application code is executing on the UI thread, under a tick body.
UserCode == NotExiting /\ Depth > 0 /\ Top.pc \in {"handle", "callback"}

\* Application code is executing on the UI thread.
AppCode == NotExiting /\ (Depth = 0 \/ UserCode)

\* Ticks of loop l that are armed and not yet consumed by a tick body.
Outstanding(l) == task[l] + dispatched[l]

\* ---- run_once_recurring: order of the statements in the try block -------
\* Variant: the pending request is flushed before the next tick is armed.
TickStepsFlushFirst == <<"step12", "inner_loop", "enqueue_tick", "call_soon">>

TickSteps == <<"step12", "enqueue_tick", "call_soon", "inner_loop">>

RECURSIVE IndexOf(_, _, _)
IndexOf(seq, x, i) ==
    IF i > Len(seq) THEN 0 ELSE IF seq[i] = x THEN i ELSE IndexOf(seq, x, i + 1)

\* The statement after `step`, or "return" after the last one.
PcAfter(step) ==
    LET i == IndexOf(TickSteps, step, 1)
    IN IF i = 0 \/ i = Len(TickSteps) THEN "return" ELSE TickSteps[i + 1]

\* Variant: `except Exception`, which lets SystemExit and KeyboardInterrupt through.
CatchesExceptionOnly(kind) == kind = "Exception"

\* except BaseException: the kinds of exception the handler catches.
Catches(kind) == kind \in {"Exception", "BaseException"}

\* An exception of `kind` raised by statement `at` of the try block.
OnException(f, kind, at) ==
    [f EXCEPT !.pc = "return",
              !.raisedAt = at,
              !.reported = Catches(kind),
              !.escaped = ~Catches(kind)]

NewFrame(l) ==
    [loop |-> l, pc |-> TickSteps[1], exiting |-> FALSE, ntodo |-> 0,
     armed |-> FALSE, raisedAt |-> None, reported |-> FALSE, escaped |-> FALSE,
     accepted |-> NoRequest, invoked |-> NoRequest, reentered |-> FALSE,
     requested |-> FALSE]

Init ==
    /\ _ready = [l \in Loops |-> <<>>]
    /\ app = [l \in Loops |-> None]
    /\ _thread_id = [l \in Loops |-> None]
    /\ _old_agen_hooks = [l \in Loops |-> None]
    /\ _stopping = [l \in Loops |-> FALSE]
    /\ _inner_loop = [l \in Loops |-> Unset]
    /\ handlers = <<>>
    /\ exit_queue = <<>>
    /\ task = [l \in Loops |-> 0]
    /\ dispatched = [l \in Loops |-> 0]
    /\ running_loop = None
    /\ asyncgen_hooks \in UserHooks
    /\ _is_exiting = [a \in Apps |-> FALSE]
    /\ stack = <<>>
    /\ pre_hooks = [l \in Loops |-> None]


\* ---- run_forever --------------------------------------------------------
call_soon(l, h) == [_ready EXCEPT ![l] = Append(@, h)]     \* self.call_soon(h)

is_running(l) == _thread_id[l] # None                 \* BaseEventLoop.is_running

\* Successful run_forever calls so far: each subscribes one exit handler.
Runs == Len(handlers)

\* Loop l has subscribed winforms_application_exit.
Subscribed(l) == \E i \in 1..Len(handlers) : handlers[i] = l

\* What the checks of run_forever raise (None: nothing).
RunForeverRaises(l) ==
    IF is_running(l) THEN "AlreadyRunning"            \* This event loop is already running
    ELSE IF running_loop # None THEN "NestedLoop"     \* ... while another loop is running
    ELSE None

\* The call is made by code on the UI thread.  A call that passes both checks
\* ends in WinForms.Application.Run, which blocks its caller until the
\* application exits; the model starts loops from top level only.
run_forever(l, a) ==
    /\ AppCode
    /\ Len(_ready[l]) <= MaxReady
    /\ _ready' = call_soon(l, "_loop_self_reading")
    /\ app' = [app EXCEPT ![l] = a]
    /\ IF RunForeverRaises(l) # None
       THEN UNCHANGED <<_thread_id, _old_agen_hooks, _stopping, _inner_loop,
                        hostVars, procVars, _is_exiting, stack>>
       ELSE /\ Depth = 0
            /\ Runs < MaxRuns
            /\ _thread_id' = [_thread_id EXCEPT ![l] = UIThread]
            /\ _old_agen_hooks' = [_old_agen_hooks EXCEPT ![l] = asyncgen_hooks]
            /\ pre_hooks' = [pre_hooks EXCEPT ![l] = asyncgen_hooks]
            /\ asyncgen_hooks' = l
            /\ running_loop' = l
            /\ handlers' = Append(handlers, l)
            /\ task' = [task EXCEPT ![l] = @ + 1]
            /\ _inner_loop' = [_inner_loop EXCEPT ![l] = NoRequest]
            /\ UNCHANGED <<_stopping, exit_queue, dispatched, _is_exiting, stack>>

\* ---- tick: the timer continuation, on a worker thread -------------------
\* Variant: tick calls run_once_recurring itself, where it is.
TickCallsBody(l) == Append(stack, NewFrame(l))

\* The UI thread after tick: app_dispatcher.Invoke(action) only hands the
\* action to the dispatcher, tick starts no tick body.
TickInvokes(l) == stack

tick(l) ==
    /\ task[l] > 0
    /\ task' = [task EXCEPT ![l] = @ - 1]
    /\ dispatched' = [dispatched EXCEPT ![l] = @ + 1]
    /\ stack' = TickInvokes(l)
    /\ UNCHANGED <<loopVars, handlers, exit_queue, procVars, _is_exiting>>

\* ---- start_inner_loop ---------------------------------------------------
\* Variant: the assertion is missing, a second request overwrites the first.
InnerLoopFreeUnchecked(l) == TRUE

InnerLoopFree(l) == _inner_loop[l] = NoRequest             \* assert self._inner_loop is None

\* What start_inner_loop raises (None: nothing).
StartInnerLoopRaises(l) ==
    IF _inner_loop[l] = Unset THEN "AttributeError"
    ELSE IF ~InnerLoopFree(l) THEN "AssertionError"
    ELSE None

\* Variant: the callback is invoked where it is requested.
StoredAndInvoked(f, req) == [f EXCEPT !.pc = "callback", !.invoked = req]

\* The calling tick body after start_inner_loop has stored and returned: it is
\* where it was (ghost: what it was given during its pass or its callback).
Stored(f, req) ==
    IF f.pc = "handle" THEN [f EXCEPT !.accepted = req]
                       ELSE [f EXCEPT !.requested = TRUE]

\* Called by a task or by code running under a callback, on its own loop.
start_inner_loop(req) ==
    /\ UserCode
    /\ LET l == Top.loop IN
       IF StartInnerLoopRaises(l) # None
       THEN UNCHANGED <<_inner_loop, stack>>
       ELSE /\ _inner_loop' = [_inner_loop EXCEPT ![l] = req]
            /\ stack' = SetTop(Stored(Top, req))
    /\ UNCHANGED <<_ready, app, _thread_id, _old_agen_hooks, _stopping,
                   hostVars, procVars, _is_exiting>>

\* ---- winforms_application_exit ------------------------------------------
\* Variant: the saved hooks are not put back.
RestoredHooksKept(l) == asyncgen_hooks

RestoredHooks(l) == _old_agen_hooks[l]        \* sys.set_asyncgen_hooks(*self._old_agen_hooks)

\* The host raises Application.ApplicationExit: it invokes the subscribed
\* handlers one after the other, in the order of their subscription.
ApplicationExit ==
    /\ HostPumping
    /\ handlers # <<>>
    /\ exit_queue' = handlers
    /\ UNCHANGED <<loopVars, handlers, task, dispatched, procVars, _is_exiting, stack>>

winforms_application_exit(l) ==
    /\ exit_queue # <<>>
    /\ Head(exit_queue) = l
    /\ exit_queue' = Tail(exit_queue)
    /\ _stopping' = [_stopping EXCEPT ![l] = FALSE]
    /\ _thread_id' = [_thread_id EXCEPT ![l] = None]
    /\ running_loop' = None
    /\ asyncgen_hooks' = RestoredHooks(l)
    /\ UNCHANGED <<_ready, app, _old_agen_hooks, _inner_loop, handlers, task,
                   dispatched, pre_hooks, _is_exiting, stack>>

\* ---- run_once_recurring -------------------------------------------------
\* The dispatcher runs the action that tick handed to Invoke.
run_once_recurring(l) ==
    /\ HostPumping
    /\ dispatched[l] > 0
    /\ Depth < MaxDepth
    /\ Len(_ready[l]) <= MaxReady + 1
    /\ dispatched' = [dispatched EXCEPT ![l] = @ - 1]
    /\ stack' = Append(IF Depth = 0 THEN stack
                        ELSE SetTop([Top EXCEPT !.reentered = TRUE]),
                        NewFrame(l))
    /\ UNCHANGED <<loopVars, handlers, exit_queue, task, procVars, _is_exiting>>

\* if self.app._is_exiting: self.stop()  else: self._run_once()
\* _run_once computes its select timeout first: None (wait for I/O) when
\* nothing is ready and the loop is not stopping, else 0.
Step12 ==
    /\ Depth > 0 /\ Top.pc = "step12"
    /\ LET l == Top.loop IN
       IF _is_exiting[app[l]]
       THEN \/ /\ _stopping' = [_stopping EXCEPT ![l] = TRUE]
               /\ stack' = SetTop([Top EXCEPT !.exiting = TRUE,
                                              !.pc = PcAfter("step12")])
            \/ /\ stack' = SetTop(OnException([Top EXCEPT !.exiting = TRUE],
                                              "Exception", "stop"))
               /\ UNCHANGED _stopping
       ELSE /\ stack' = SetTop(IF _ready[l] = <<>> /\ ~_stopping[l]
                               THEN [Top EXCEPT !.pc = "select"]
                               ELSE [Top EXCEPT !.pc = "run_once",
                                                !.ntodo = Len(_ready[l])])
            /\ UNCHANGED _stopping
    /\ UNCHANGED <<_ready, app, _thread_id, _old_agen_hooks, _inner_loop,
                   hostVars, procVars, _is_exiting>>

\* _run_once: for i in range(ntodo): handle = self._ready.popleft(); handle._run()
_run_once ==
    /\ Depth > 0 /\ Top.pc = "run_once"
    /\ LET l == Top.loop IN
       IF Top.ntodo = 0
       THEN /\ stack' = SetTop([Top EXCEPT !.pc = PcAfter("step12")])
            /\ UNCHANGED _ready
       ELSE /\ _ready' = [_ready EXCEPT ![l] = Tail(@)]
            /\ stack' = SetTop([Top EXCEPT
                                  !.ntodo = @ - 1,
                                  !.pc = IF Head(_ready[l]) = "task"
                                         THEN "handle" ELSE "run_once"])
    /\ UNCHANGED <<app, _thread_id, _old_agen_hooks, _stopping, _inner_loop,
                   hostVars, procVars, _is_exiting>>

\* The task's step returns, or raises an Exception that Handle._run reports.
HandleReturn ==
    /\ Depth > 0 /\ Top.pc = "handle"
    /\ stack' = SetTop([Top EXCEPT !.pc = "run_once"])
    /\ UNCHANGED <<loopVars, hostVars, procVars, _is_exiting>>

\* The task's step raises SystemExit or KeyboardInterrupt, which Handle._run
\* re-raises out of _run_once.
HandleRaise ==
    /\ Depth > 0 /\ Top.pc = "handle"
    /\ stack' = SetTop(OnException(Top, "BaseException", "run_once"))
    /\ UNCHANGED <<loopVars, hostVars, procVars, _is_exiting>>

\* self.enqueue_tick()
enqueue_tick ==
    /\ Depth > 0 /\ Top.pc = "enqueue_tick"
    /\ \/ /\ task' = [task EXCEPT ![Top.loop] = @ + 1]
          /\ stack' = SetTop([Top EXCEPT !.armed = TRUE,
                                         !.pc = PcAfter("enqueue_tick")])
       \/ /\ stack' = SetTop(OnException(Top, "Exception", "enqueue_tick"))
          /\ UNCHANGED task
    /\ UNCHANGED <<loopVars, handlers, exit_queue, dispatched, procVars, _is_exiting>>

\* self.call_soon(self._loop_self_reading)
CallSoonSelfReading ==
    /\ Depth > 0 /\ Top.pc = "call_soon"
    /\ \/ /\ _ready' = call_soon(Top.loop, "_loop_self_reading")
          /\ stack' = SetTop([Top EXCEPT !.pc = PcAfter("call_soon")])
       \/ /\ stack' = SetTop(OnException(Top, "Exception", "call_soon"))
          /\ UNCHANGED _ready
    /\ UNCHANGED <<app, _thread_id, _old_agen_hooks, _stopping, _inner_loop,
                   hostVars, procVars, _is_exiting>>

\* Variant: the slot is not cleared before the callback is invoked.
SlotKept(l) == _inner_loop

\* self._inner_loop = None, before callback(*args)
SlotCleared(l) == [_inner_loop EXCEPT ![l] = NoRequest]

\* if self._inner_loop: callback, args = ...; self._inner_loop = None; callback(*args)
InnerLoop ==
    /\ Depth > 0 /\ Top.pc = "inner_loop"
    /\ LET l == Top.loop IN
       IF _inner_loop[l] = Unset
       THEN /\ stack' = SetTop(OnException(Top, "Exception", "inner_loop"))
            /\ UNCHANGED _inner_loop
       ELSE IF _inner_loop[l] = NoRequest
       THEN /\ stack' = SetTop([Top EXCEPT !.pc = PcAfter("inner_loop")])
            /\ UNCHANGED _inner_loop
       ELSE /\ _inner_loop' = SlotCleared(l)
            /\ stack' = SetTop([Top EXCEPT !.pc = "callback",
                                           !.invoked = _inner_loop[l]])
    /\ UNCHANGED <<_ready, app, _thread_id, _old_agen_hooks, _stopping,
                   hostVars, procVars, _is_exiting>>

CallbackReturn ==
    /\ NotExiting /\ Depth > 0 /\ Top.pc = "callback"
    /\ stack' = SetTop([Top EXCEPT !.pc = PcAfter("inner_loop")])
    /\ UNCHANGED <<loopVars, hostVars, procVars, _is_exiting>>

CallbackRaise ==
    /\ NotExiting /\ Depth > 0 /\ Top.pc = "callback"
    /\ stack' = SetTop(OnException(Top, "Exception", "callback"))
    /\ UNCHANGED <<loopVars, hostVars, procVars, _is_exiting>>

\* run_once_recurring returns to the dispatcher.
Return ==
    /\ Depth > 0 /\ Top.pc = "return"
    /\ stack' = Pop
    /\ UNCHANGED <<loopVars, hostVars, procVars, _is_exiting>>

\* ---- the application ----------------------------------------------------
\* Application code schedules a task on a loop.
ScheduleTask(l) ==
    /\ AppCode
    /\ Len(_ready[l]) <= MaxReady
    /\ \A i \in 1..Len(_ready[l]) : _ready[l][i] # "task"
    /\ _ready' = call_soon(l, "task")
    /\ UNCHANGED <<app, _thread_id, _old_agen_hooks, _stopping, _inner_loop,
                   hostVars, procVars, _is_exiting, stack>>

\* The application starts to exit.
SetExiting(a) ==
    /\ AppCode
    /\ ~_is_exiting[a]
    /\ _is_exiting' = [_is_exiting EXCEPT ![a] = TRUE]
    /\ UNCHANGED <<loopVars, hostVars, procVars, stack>>

\* One adapter and its application, with everything the ticks do.
Main == "L1"
MainApp == "a1"

Next ==
    \/ run_forever(Main, MainApp)
    \/ tick(Main)
    \/ \E req \in Requests : start_inner_loop(req)
    \/ ApplicationExit
    \/ winforms_application_exit(Main)
    \/ run_once_recurring(Main)
    \/ Step12
    \/ _run_once
    \/ HandleReturn
    \/ HandleRaise
    \/ enqueue_tick
    \/ CallSoonSelfReading
    \/ InnerLoop
    \/ CallbackReturn
    \/ CallbackRaise
    \/ Return
    \/ ScheduleTask(Main)
    \/ SetExiting(MainApp)

Spec == Init /\ [][Next]_vars

\* Every adapter, without application tasks: the life cycle.  MainApp is the
\* application that exits.
NextLoops ==
    \/ \E l \in Loops, a \in Apps : run_forever(l, a)
    \/ \E l \in Loops : tick(l)
    \/ ApplicationExit
    \/ \E l \in Loops : winforms_application_exit(l)
    \/ \E l \in Loops : run_once_recurring(l)
    \/ Step12
    \/ _run_once
    \/ enqueue_tick
    \/ CallSoonSelfReading
    \/ InnerLoop
    \/ Return
    \/ SetExiting(MainApp)

SpecLoops == Init /\ [][NextLoops]_vars


\* ---- properties ---------------------------------------------------------
Frames == {stack[i] : i \in 1..Depth}

\* The adapter has been started and winforms_application_exit has cleaned up.
Stopped(l) == Subscribed(l) /\ _thread_id[l] = None /\ ~_stopping[l]

\* C1: while the application is not exiting, whenever the inner-loop callback
\* of a tick body is running, that tick body has already armed the next tick.
C1_ArmedBeforeCallback ==
    \A f \in Frames : (f.pc = "callback" /\ ~f.exiting) => f.armed

C1_Witness ==
    \E f \in Frames : f.pc = "callback" /\ ~f.exiting /\ f.armed

\* C2 (as claimed): when run_once_recurring is about to return from a tick
\* whose _run_once raised and the application is not exiting, a tick of that
\* loop is outstanding on the host loop.
C2_RearmedAfterFailedPass ==
    \A f \in Frames :
        (f.pc = "return" /\ f.raisedAt = "run_once" /\ ~_is_exiting[app[f.loop]])
            => Outstanding(f.loop) >= 1

\* C3 (as claimed): a tick body that found the application exiting has
\* stopped the scheduler once stop() has returned, and arms no next tick.
C3_NoTickArmedWhenExiting ==
    \A f \in Frames :
        /\ (f.exiting /\ f.pc = "enqueue_tick") => _stopping[f.loop]
        /\ (f.exiting /\ f.raisedAt = None) => ~f.armed

\* C4 (as claimed): a run_forever call that fails with the already-running
\* error changes neither the ready queue, the remembered application, the
\* thread id, the saved hooks, the running flag, the outstanding ticks nor the
\* pending inner-loop slot.
C4_FailedRunForeverMutatesNothing ==
    [][\A l \in Loops, a \in Apps :
          (run_forever(l, a) /\ RunForeverRaises(l) = "AlreadyRunning")
              => UNCHANGED <<_ready, app, _thread_id, _old_agen_hooks,
                             running_loop, task, dispatched, _inner_loop>>]_vars

\* C5: the slot holds at most one request, and a start_inner_loop call made
\* while a request is pending raises AssertionError and leaves the pending
\* request in the slot.
C5_OverlappingRequestRejected ==
    /\ [](\A l \in Loops : _inner_loop[l] \in {Unset, NoRequest} \cup Requests)
    /\ [][\A req \in Requests :
             (start_inner_loop(req) /\ _inner_loop[Top.loop] \in Requests)
                 => /\ StartInnerLoopRaises(Top.loop) = "AssertionError"
                    /\ _inner_loop' = _inner_loop]_vars

C5_Witness ==
    UserCode /\ _inner_loop[Top.loop] \in Requests

\* C6 (as claimed): when a tick body is about to return, the request that
\* start_inner_loop accepted during its scheduler pass has been invoked by it,
\* with the stored callback and arguments.
C6_AcceptedRequestInvoked ==
    \A f \in Frames :
        (f.pc = "return" /\ f.accepted # NoRequest) => f.invoked = f.accepted

\* C7: winforms_application_exit leaves the adapter Stopped: stopping flag
\* false, thread id cleared, running-loop flag cleared, and the asyncgen hooks
\* equal to those in force just before run_forever installed its own.
C7_ExitRestores ==
    [][\A l \in Loops :
          winforms_application_exit(l)
              => /\ ~_stopping'[l]
                 /\ _thread_id'[l] = None
                 /\ running_loop' = None
                 /\ asyncgen_hooks' = pre_hooks[l]]_vars

C7_Witness ==
    \E l \in Loops : /\ Stopped(l)
                     /\ running_loop = None
                     /\ asyncgen_hooks = pre_hooks[l]
                     /\ asyncgen_hooks \in UserHooks

\* C8 (as claimed): winforms_application_exit fired on an adapter that is
\* already Stopped changes no component of the state.
C8_SecondExitIsNoOp ==
    [][\A l \in Loops :
          (winforms_application_exit(l) /\ Stopped(l))
              => UNCHANGED <<_stopping, _thread_id, running_loop, asyncgen_hooks,
                             _ready, task, dispatched, _inner_loop>>]_vars

\* C9: whichever statement of the tick body raises, the exception is caught
\* and reported and run_once_recurring returns normally: nothing escapes to
\* the host's dispatch callback.
C9_NoErrorEscapes ==
    \A f \in Frames :
        /\ ~f.escaped
        /\ f.raisedAt # None => (f.pc = "return" /\ f.reported)

C9_Witness ==
    \E f \in Frames : f.pc = "return" /\ f.raisedAt = "callback" /\ f.reported

\* C10 (as claimed): a step of a tick body that executes on an adapter that
\* winforms_application_exit has put in Stopped changes neither the stopping
\* flag, the thread id, the running flag nor the ready queue, and arms no tick.
C10_LateTickIsNoOp ==
    [][(Depth > 0 /\ stack' # stack /\ Stopped(Top.loop))
          => UNCHANGED <<_stopping, _thread_id, running_loop, _ready, task>>]_vars

\* C11 (as claimed): the running-loop flag designates every adapter whose
\* thread id is set, so at most one adapter is Running at a time.
C11_OneRunningAdapter ==
    \A l \in Loops : is_running(l) => running_loop = l

\* C13 (as claimed): at most one tick of an adapter is outstanding, armed on
\* the host loop and not yet consumed by a tick body.
C13_AtMostOneTick ==
    \A l \in Loops : Outstanding(l) <= 1

\* ---- the undisturbed run: not exiting, no step raises ---------------------
\* No tick body on the stack has seen a statement of its try block raise.
NoRaise == \A i \in 1..Depth : stack[i].raisedAt = None

\* run_forever succeeds.
Start == run_forever(Main, MainApp) /\ RunForeverRaises(Main) = None

\* The statements of the tick body that return on their own.
TickBody ==
    \/ Step12
    \/ _run_once
    \/ HandleReturn
    \/ enqueue_tick /\ NoRaise'
    \/ CallSoonSelfReading /\ NoRaise'
    \/ InnerLoop /\ NoRaise'
    \/ Return

NextLive ==
    \/ Start
    \/ tick(Main)
    \/ \E req \in Requests : start_inner_loop(req) /\ StartInnerLoopRaises(Main) = None
    \/ run_once_recurring(Main)
    \/ TickBody
    \/ CallbackReturn
    \/ ScheduleTask(Main)

\* The host loop is weakly fair: an armed tick fires (Task.Delay), a dispatched
\* action runs (Dispatcher.Invoke), and a tick body that can take its next
\* statement takes it.  A callback may block for ever; only the one at the
\* deepest nesting the model follows is made to return.
SpecLive ==
    /\ Init /\ [][NextLive]_vars
    /\ WF_vars(tick(Main))
    /\ WF_vars(run_once_recurring(Main))
    /\ WF_vars(TickBody)
    /\ WF_vars(CallbackReturn /\ Depth = MaxDepth)

\* C12: under the weakly fair host loop, with the application not exiting and
\* no step raising, once the adapter is started a scheduler pass (_run_once)
\* always comes again, even while a flushed callback never returns.
C12_PassesRecur ==
    Subscribed(Main) ~> (Depth > 0 /\ Top.pc = "run_once")

\* A pass runs in a tick nested inside a callback that has not returned.
C12_Witness ==
    /\ Depth >= 2
    /\ stack[1].pc = "callback"
    /\ Top.pc = "run_once" /\ Top.ntodo > 0

InPass(f) == f.pc \in {"select", "run_once", "handle"}

\* C15: a callback starts only in a tick body that is at the flush statement
\* of run_once_recurring, its pass over, and while no tick body on the stack
\* is inside a pass; start_inner_loop never starts one.
C15_CallbackStartsAfterPass ==
    [][\A i \in 1..Depth :
          (i <= Len(stack') /\ stack'[i].pc = "callback" /\ stack[i].pc # "callback")
              => /\ stack[i].pc = "inner_loop" /\ stack[i].ntodo = 0
                 /\ stack'[i].invoked = _inner_loop[stack[i].loop]
                 /\ \A j \in 1..Depth : ~InPass(stack[j])]_vars

\* A request stored during a tick body's pass is running as its callback.
C15_Witness ==
    \E f \in Frames :
        /\ f.pc = "callback" /\ ~f.reentered /\ ~f.requested
        /\ f.accepted # NoRequest /\ f.invoked = f.accepted /\ f.ntodo = 0

\* C16: the worker-thread step (tick) writes no adapter or process state and
\* starts no tick body; a tick body starts only from a dispatched action while
\* the UI thread is in the host's message loop, and every step leaves the
\* suspended tick bodies below the executing one as they are, so tick bodies
\* run one at a time.
C16_UIThreadOnly ==
    [][/\ (\E l \in Loops : dispatched'[l] > dispatched[l])
            => UNCHANGED <<loopVars, procVars, stack>>
       /\ Len(stack') > Depth
            => HostPumping /\ \E l \in Loops : dispatched'[l] < dispatched[l]
       /\ \A i \in 1..(Depth - 1) : i <= Len(stack') => stack'[i] = stack[i]]_vars

\* A tick has fired on its worker thread and been dispatched while the UI
\* thread is still executing the statements of a tick body.
C16_Witness ==
    /\ Depth > 0 /\ Top.pc \in {"call_soon", "inner_loop"}
    /\ dispatched[Top.loop] > 0

\* C17 (as claimed): the ready queue is non-empty at the start of every
\* scheduler pass, so no tick body ever begins a pass with nothing ready and
\* the loop not stopping (which is where _run_once waits without a timeout).
C17_ReadyAtPassStart ==
    \A f \in Frames : f.pc # "select"

\* C18 (as claimed): at most one inner-loop callback is active at a time.
C18_OneCallbackActive ==
    \A i, j \in 1..Depth :
        (stack[i].pc = "callback" /\ stack[j].pc = "callback") => i = j

====
